---- MODULE Spec2Model ----
(***************************************************************************)
(* Model of uoilib/container.py: the Container handle over the LXC runtime *)
(* (ip, run, create, start, stop, destroy, set_static_route) and the       *)
(* per-container subnet configuration (write_lxc_net_config).              *)
(*                                                                         *)
(* The handle keeps no state between calls, so each group of operations   *)
(* has its own specification over the same variables:                      *)
(*   Spec      - ip, create, start, stop, destroy;                         *)
(*   SpecRun   - run and the process it spawns;                            *)
(*   SpecRoute - set_static_route and its three ip() queries;              *)
(*   SpecNet   - several containers drawing subnets from the allocator.    *)
(***************************************************************************)
EXTENDS Integers, Sequences, FiniteSets, TLC

(* ------------------------------ bounds -------------------------------- *)

\* longest address list the runtime reports
MaxIps == 2
\* largest exit status a process or host command ends with
MaxExitStatus == 2
\* number of containers provisioned on the host
MaxContainers == 3

(* --------------------------- input domains ---------------------------- *)

Addrs == {"10.0.3.5", "10.0.3.9"}

IpLists == UNION {[1..n -> Addrs] : n \in 0..MaxIps}

ExitStatuses == 0..MaxExitStatus

\* a command given as a list of arguments, or as one string (the sequence of
\* its characters' runs: words and the blanks between them)
Cmds == { [isStr |-> FALSE, text |-> <<"ls", "-l">>],
          [isStr |-> TRUE,  text |-> <<"ls", " ", "-l">>],
          [isStr |-> TRUE,  text |-> <<"false">>],
          [isStr |-> FALSE, text |-> <<"sh", "-c", "exit 1">>] }

UserDatas == {"userdata.yaml"}

TargetNets == {"10.0.4.0/24"}

CmdOutputs == {"", "RTNETLINK answers: File exists"}

\* os.environ.get("USE_LXC_IMAGE_CACHE"): None when the variable is absent
None == "None"

EnvValues == {None, "", "0", "1"}

States == {"STOPPED", "RUNNING", "FROZEN"}

VARIABLES
    ips,        \* the address list the runtime reports for the container
    cstate,     \* self.container.state
    environ,    \* value of USE_LXC_IMAGE_CACHE in os.environ, or None
    calls,      \* runtime / host calls made by the operation in progress
    pc,         \* position of the calling thread inside the handle
    local,      \* locals of the operation in progress
    proc,       \* the subprocess.Popen object of run
    result,     \* outcome of the last finished operation
    hostNets,   \* subnets in use by networks of the host
    files,      \* container -> contents of rootfs/etc/default/lxc-net
    netResult   \* outcome of the last write_lxc_net_config

vars == <<ips, cstate, environ, calls, pc, local, proc, result,
          hostNets, files, netResult>>

handleVars == <<ips, cstate, environ, calls, pc, local, proc, result>>
netVars == <<hostNets, files, netResult>>

(* ----------------------------- Container ------------------------------ *)

\* Container.__init__: the handle's fields
name == "c1"
run_as == "ubuntu"
container == [lxc |-> name]

\* Container.abspath
abspath == <<"/var/lib/lxc", name>>

NoLocal == [cmd |-> <<>>, net |-> "", via |-> "", seen |-> ""]
NoProc == [spawned |-> FALSE, alive |-> FALSE, exitStatus |-> -1,
           attrs |-> [returncode |-> <<>>]]
NoResult == [op |-> "none", kind |-> "none", exc |-> "", val |-> <<>>,
             msg |-> <<>>, code |-> <<>>]

Return(op, v) == [op |-> op, kind |-> "return", exc |-> "", val |-> <<v>>,
                  msg |-> <<>>, code |-> <<>>]
ReturnNone(op) == [op |-> op, kind |-> "return", exc |-> "", val |-> <<>>,
                   msg |-> <<>>, code |-> <<>>]
Raise(op, exc, msg, code) == [op |-> op, kind |-> "raise", exc |-> exc,
                              val |-> <<>>, msg |-> msg, code |-> code]

\* ip_query with a fault: an empty list is indexed instead of being refused
ip_query_noguard(lst, failed) ==
    IF failed THEN [ok |-> FALSE, exc |-> "NoContainerIPException", ip |-> ""]
    ELSE IF Len(lst) = 0 THEN [ok |-> FALSE, exc |-> "IndexError", ip |-> ""]
    ELSE [ok |-> TRUE, exc |-> "", ip |-> lst[1]]

\* Container.ip on the list get_ips() reports; failed: get_ips raised
\* subprocess.CalledProcessError
ip_query(lst, failed) ==
    IF failed THEN [ok |-> FALSE, exc |-> "NoContainerIPException", ip |-> ""]
    ELSE IF Len(lst) = 0
         THEN [ok |-> FALSE, exc |-> "NoContainerIPException", ip |-> ""]
         ELSE [ok |-> TRUE, exc |-> "", ip |-> lst[1]]

\* the record of one self.container.get_ips() call and what it reported
get_ips(lst, failed) == [op |-> "get_ips", failed |-> failed, ips |-> lst]

\* the public call ip()
ip ==
    /\ pc = "idle"
    /\ \E failed \in BOOLEAN :
         LET q == ip_query(ips, failed) IN
         /\ calls' = <<get_ips(ips, failed)>>
         /\ result' = IF q.ok THEN Return("ip", q.ip)
                      ELSE Raise("ip", q.exc, <<>>, <<>>)
    /\ UNCHANGED <<ips, cstate, environ, pc, local, proc, netVars>>

(* -------------------------------- run --------------------------------- *)

RECURSIVE shlex_split(_)
\* shlex.split on a string of plain words: the blanks separate, the words stay
shlex_split(text) ==
    IF text = <<>> THEN <<>>
    ELSE IF Head(text) = " " THEN shlex_split(Tail(text))
         ELSE <<Head(text)>> \o shlex_split(Tail(text))

\* the attributes of a subprocess.Popen object right after the constructor:
\* returncode is None (written <<>>) until poll(), wait() or communicate()
Popen(argv) ==
    [spawned |-> TRUE, alive |-> TRUE, exitStatus |-> -1,
     attrs |-> [args |-> argv, returncode |-> <<>>,
                stdout |-> "stdout-pipe", stderr |-> "stderr-pipe"]]

\* run, lines 72-76: split a string command, spawn the process
run_spawn ==
    /\ pc = "idle"
    /\ \E cmd \in Cmds :
         LET argv == IF cmd.isStr THEN shlex_split(cmd.text) ELSE cmd.text IN
         /\ proc' = Popen(argv)
         /\ local' = [NoLocal EXCEPT !.cmd = argv]
         /\ calls' = <<[op |-> "Popen", argv |-> argv]>>
    /\ pc' = "run_branch"
    /\ UNCHANGED <<ips, cstate, environ, result, netVars>>

\* the spawned process ends; nothing in run polls it, so the Popen object's
\* returncode attribute keeps its value
process_exits ==
    /\ proc.alive
    /\ \E status \in ExitStatuses :
         proc' = [proc EXCEPT !.alive = FALSE, !.exitStatus = status]
    /\ UNCHANGED <<ips, cstate, environ, calls, pc, local, result, netVars>>

\* run, lines 78-87: the branch on subproc.returncode and what each arm does
run_outcome(p, loc, lst, failed) ==
    IF p.attrs.returncode = <<0>>
    THEN Return("run", p.attrs.stdout)
    ELSE IF "stdeer" \notin DOMAIN p.attrs
         THEN Raise("run", "AttributeError", <<"Popen", "stdeer">>, <<>>)
         ELSE LET q == ip_query(lst, failed) IN
              IF q.ok
              THEN Raise("run", "ContainerRunException",
                         <<"Problem running ", loc.cmd, " in container ",
                           container, ":", q.ip>>,
                         p.attrs.returncode)
              ELSE Raise("run", q.exc, <<>>, <<>>)

run_branch ==
    /\ pc = "run_branch"
    /\ \E failed \in BOOLEAN :
         result' = run_outcome(proc, local, ips, failed)
    /\ local' = [local EXCEPT !.seen = IF proc.alive THEN "alive" ELSE "exited"]
    /\ pc' = "idle"
    /\ UNCHANGED <<ips, cstate, environ, calls, proc, netVars>>

(* ------------------------ create, start, stop ------------------------- *)

\* truth value of os.getenv's result: None and "" are false
Truthy(v) == v # None /\ v # ""

\* flushflag with a fault: the variable's presence alone suppresses the flush
flushflag_present(v) == IF v # None THEN "" ELSE "-F"

\* create, lines 96-99
flushflag(v) == IF Truthy(v) THEN "" ELSE "-F"

\* create, lines 100-103; ret is what the runtime's create returns
create ==
    /\ pc = "idle"
    /\ \E userdata \in UserDatas, ret \in BOOLEAN :
         /\ calls' = <<[op |-> "create", template |-> "ubuntu-cloud",
                        args |-> <<flushflag(environ), "-u", userdata>>,
                        env |-> environ, userdata |-> userdata,
                        ret |-> ret]>>
         /\ result' = Return("create", ret)
    /\ UNCHANGED <<ips, cstate, environ, pc, local, proc, netVars>>

start ==
    /\ pc = "idle"
    /\ \E ret \in BOOLEAN :
         /\ calls' = <<[op |-> "start", ret |-> ret]>>
         /\ cstate' = IF ret THEN "RUNNING" ELSE cstate
         /\ result' = Return("start", ret)
    /\ UNCHANGED <<ips, environ, pc, local, proc, netVars>>

stop ==
    /\ pc = "idle"
    /\ \E ret \in BOOLEAN :
         /\ calls' = <<[op |-> "stop", ret |-> ret]>>
         /\ cstate' = IF ret THEN "STOPPED" ELSE cstate
         /\ result' = Return("stop", ret)
    /\ UNCHANGED <<ips, environ, pc, local, proc, netVars>>

(* ------------------------------ destroy ------------------------------- *)

\* destroy_calls with a fault: the stop is issued whatever the state
destroy_calls_always_stop(st) == <<[op |-> "stop"], [op |-> "destroy"]>>

\* destroy, lines 123-125: the runtime calls made for a reported state
destroy_calls(st) ==
    IF st = "RUNNING"
    THEN <<[op |-> "stop"], [op |-> "destroy"]>>
    ELSE <<[op |-> "destroy"]>>

destroy ==
    /\ pc = "idle"
    /\ calls' = destroy_calls(cstate)
    /\ local' = [NoLocal EXCEPT !.seen = cstate]
    /\ cstate' = "STOPPED"
    /\ ips' = <<>>
    /\ result' = ReturnNone("destroy")
    /\ UNCHANGED <<environ, pc, proc, netVars>>

(* -------------------------- set_static_route -------------------------- *)

\* the host command of line 134
route_cmd(lxc_net, via) ==
    <<"ip", "route", "add", lxc_net, "via", via, "dev", "lxcbr0">>

\* set_static_route, lines 131-132: the ip() query of the log line
ssr_log ==
    /\ pc = "idle"
    /\ \E lxc_net \in TargetNets, failed \in BOOLEAN :
         LET q == ip_query(ips, failed) IN
         /\ calls' = <<get_ips(ips, failed)>>
         /\ local' = [NoLocal EXCEPT !.net = lxc_net]
         /\ IF q.ok
            THEN /\ pc' = "ssr_cmd"
                 /\ UNCHANGED result
            ELSE /\ pc' = "idle"
                 /\ result' = Raise("set_static_route", q.exc, <<>>, <<>>)
    /\ UNCHANGED <<ips, cstate, environ, proc, netVars>>

\* ssr_failure with a fault: the error names the network but drops the output
ssr_failure_no_output(lxc_net, out) ==
    Raise("set_static_route", "Exception",
          <<"Could not add static route for ", lxc_net, " network: ">>, <<>>)

\* set_static_route, lines 136-137: the error of a failed route command
ssr_failure(lxc_net, out) ==
    Raise("set_static_route", "Exception",
          <<"Could not add static route for ", lxc_net, " network: ",
            out.output>>, <<>>)

\* set_static_route, lines 133-137: the ip() query of the command, the
\* command itself (utils.get_command_output) and the test of its status
ssr_cmd ==
    /\ pc = "ssr_cmd"
    /\ \E failed \in BOOLEAN, status \in ExitStatuses, output \in CmdOutputs :
         LET q == ip_query(ips, failed)
             out == [status |-> status, output |-> output] IN
         IF ~q.ok
         THEN /\ pc' = "idle"
              /\ result' = Raise("set_static_route", q.exc, <<>>, <<>>)
              /\ calls' = Append(calls, get_ips(ips, failed))
              /\ UNCHANGED local
         ELSE /\ calls' = calls \o <<get_ips(ips, failed),
                                     [op |-> "get_command_output",
                                      cmd |-> route_cmd(local.net, q.ip),
                                      out |-> out]>>
              /\ local' = [local EXCEPT !.via = q.ip]
              /\ IF out.status # 0
                 THEN /\ pc' = "idle"
                      /\ result' = ssr_failure(local.net, out)
                 ELSE /\ pc' = "ssr_ret"
                      /\ UNCHANGED result
    /\ UNCHANGED <<ips, cstate, environ, proc, netVars>>

\* set_static_route, line 138: the ip() query of the return value
ssr_ret ==
    /\ pc = "ssr_ret"
    /\ \E failed \in BOOLEAN :
         LET q == ip_query(ips, failed) IN
         /\ result' = IF q.ok THEN Return("set_static_route", q.ip)
                      ELSE Raise("set_static_route", q.exc, <<>>, <<>>)
         /\ calls' = Append(calls, get_ips(ips, failed))
    /\ pc' = "idle"
    /\ UNCHANGED <<ips, cstate, environ, local, proc, netVars>>

(* ----------------------- runtime and environment ---------------------- *)

\* the container gains, loses or changes addresses (DHCP inside the runtime)
runtime_ips_change ==
    /\ \E lst \in IpLists : ips' = lst /\ lst # ips
    /\ UNCHANGED <<cstate, environ, calls, pc, local, proc, result, netVars>>

\* the runtime's state changes under another tool (lxc-freeze, lxc-stop, ...)
runtime_state_change ==
    /\ \E s \in States : cstate' = s /\ s # cstate
    /\ UNCHANGED <<ips, environ, calls, pc, local, proc, result, netVars>>

\* os.environ is set up differently
setenv ==
    /\ pc = "idle"
    /\ \E v \in EnvValues : environ' = v /\ v # environ
    /\ UNCHANGED <<ips, cstate, calls, pc, local, proc, result, netVars>>

(* ------------------------- IPv4 networks ------------------------------ *)

Containers == 1..MaxContainers

\* a.b.c.d as a number
Dotted(a, b, c, d) == ((a * 256 + b) * 256 + c) * 256 + d

\* the CIDR string "a.b.c.d/p", kept as its two parts
Cidr(base, prefix) == <<base, prefix>>

\* ipaddress.IPv4Network(s), strict: host bits set are a ValueError
IPv4Network(s) ==
    [base |-> s[1], prefix |-> s[2], ok |-> s[1] % (2 ^ (32 - s[2])) = 0]

num_addresses(nw) == 2 ^ (32 - nw.prefix)

\* nw[i], and nw[-1] for the last address
NetIndex(nw, i) == IF i >= 0 THEN nw.base + i
                   ELSE nw.base + (num_addresses(nw) + i)

\* nw.with_netmask.split('/')[-1], as its four octets
with_netmask(nw) ==
    [i \in 1..4 |->
        LET bits == IF nw.prefix - 8 * (i - 1) >= 8 THEN 8
                    ELSE IF nw.prefix - 8 * (i - 1) <= 0 THEN 0
                    ELSE nw.prefix - 8 * (i - 1)
        IN 256 - 2 ^ (8 - bits)]

\* IPv4Network.overlaps
Overlaps(a, b) ==
    /\ a.base <= NetIndex(b, -1)
    /\ b.base <= NetIndex(a, -1)

(* ----------------- netutils: the subnet allocator --------------------- *)

\* the reserved allocation space 10.0.0.0/16, carved in /24 steps
SpacePrefix == 16
SubnetPrefix == 24
SpaceBase == Dotted(10, 0, 0, 0)

NumCandidates == 2 ^ (SubnetPrefix - SpacePrefix)

\* the k-th candidate of the enumeration, k = 0, 1, ...
Candidate(k) == Cidr(SpaceBase + k * 2 ^ (32 - SubnetPrefix), SubnetPrefix)

\* the rendered lxc-net file keeps the values it was rendered from
NoNetResult == [c |-> 0, kind |-> "none", network |-> <<>>, used |-> {}]

\* the subnets in use: the host's networks and every subnet named by an
\* existing lxc-net config file
UsedSubnets(nets, fs) == nets \cup {fs[p].network : p \in DOMAIN fs}

\* first_free with a fault: a candidate is compared with the used subnets by
\* equality, not by overlap
first_free_equal(used) ==
    IF \E k \in 0..(NumCandidates - 1) : Candidate(k) \notin used
    THEN [ok |-> TRUE,
          network |-> Candidate(CHOOSE k \in 0..(NumCandidates - 1) :
                                  /\ Candidate(k) \notin used
                                  /\ \A j \in 0..(k - 1) : Candidate(j) \in used)]
    ELSE [ok |-> FALSE, network |-> <<>>]

\* candidate k intersects no used subnet
IsFree(k, used) ==
    \A u \in used : ~Overlaps(IPv4Network(Candidate(k)), IPv4Network(u))

\* the enumeration of the candidates in order: the first one that overlaps no
\* used subnet, or exhaustion
first_free(used) ==
    IF \E k \in 0..(NumCandidates - 1) : IsFree(k, used)
    THEN [ok |-> TRUE,
          network |-> Candidate(CHOOSE k \in 0..(NumCandidates - 1) :
                                  /\ IsFree(k, used)
                                  /\ \A j \in 0..(k - 1) : ~IsFree(j, used))]
    ELSE [ok |-> FALSE, network |-> <<>>]

\* netutils.get_unique_lxc_network
get_unique_lxc_network(used) == first_free(used)

\* netutils.ip_range_max(network, exclude): the longest run of usable host
\* addresses (network[1] .. network[-2]) holding no excluded address, the
\* lowest such run when several are as long
ip_range_max(nw, exclude) ==
    LET first == NetIndex(nw, 1)
        last  == NetIndex(nw, -2)
        ex    == {e \in exclude : e >= first /\ e <= last}
        lows  == {a \in {first} \cup {e + 1 : e \in ex} : a <= last /\ a \notin ex}
        highs == {b \in {last} \cup {e - 1 : e \in ex} : b >= first /\ b \notin ex}
        runs  == {r \in lows \X highs :
                    /\ r[1] <= r[2]
                    /\ \A e \in ex : e < r[1] \/ e > r[2]}
        best  == CHOOSE r \in runs :
                    \A q \in runs :
                        \/ q[2] - q[1] < r[2] - r[1]
                        \/ q[2] - q[1] = r[2] - r[1] /\ r[1] <= q[1]
    IN IF runs = {} THEN [ok |-> FALSE, low |-> 0, high |-> 0]
       ELSE [ok |-> TRUE, low |-> best[1], high |-> best[2]]

(* ------------------------ write_lxc_net_config ------------------------ *)

\* lxc_net_container_filename with a fault: the container's name is left out
lxc_net_container_filename_shared(c) ==
    <<"/var/lib/lxc", "rootfs/etc/default/lxc-net">>

\* lines 145-147
lxc_net_container_filename(c) ==
    <<"/var/lib/lxc", c, "rootfs/etc/default/lxc-net">>

\* render_parts with a fault: nothing is excluded from the dynamic range
render_parts_no_exclude(network) ==
    LET nw == IPv4Network(network)
        addr == NetIndex(nw, 1)
        range == ip_range_max(nw, {})
    IN [addr |-> addr, netmask |-> with_netmask(nw), network |-> network,
        dhcp_range |-> <<range.low, range.high>>, ok |-> nw.ok /\ range.ok]

\* lines 150-158: gateway, netmask and dynamic range of the allocated subnet
render_parts(network) ==
    LET nw == IPv4Network(network)
        addr == NetIndex(nw, 1)
        range == ip_range_max(nw, {addr})
    IN [addr |-> addr, netmask |-> with_netmask(nw), network |-> network,
        dhcp_range |-> <<range.low, range.high>>, ok |-> nw.ok /\ range.ok]

\* utils.spew(path, text)
spew(fs, path, text) ==
    [q \in DOMAIN fs \cup {path} |-> IF q = path THEN text ELSE fs[q]]

\* write_lxc_net_config of container c, lines 140-162
write_lxc_net_config(c) ==
    \E used \in {UsedSubnets(hostNets, files)} :
    \E got \in {get_unique_lxc_network(used)} :
       IF ~got.ok
       THEN /\ netResult' = [c |-> c, kind |-> "exhausted", network |-> <<>>,
                             used |-> used]
            /\ UNCHANGED <<hostNets, files, handleVars>>
       ELSE \E parts \in {render_parts(got.network)} :
            IF ~parts.ok
            THEN /\ netResult' = [c |-> c, kind |-> "ValueError",
                                  network |-> <<>>, used |-> used]
                 /\ UNCHANGED <<hostNets, files, handleVars>>
            ELSE /\ files' = spew(files, lxc_net_container_filename(c), parts)
                 /\ netResult' = [c |-> c, kind |-> "return",
                                  network |-> got.network, used |-> used]
                 /\ UNCHANGED <<hostNets, handleVars>>

\* the runtime's destroy of container c removes its root filesystem, and
\* with it the config file; the outcome of a call on it is forgotten
rootfs_removed(c) ==
    /\ lxc_net_container_filename(c) \in DOMAIN files
    /\ files' = [q \in DOMAIN files \ {lxc_net_container_filename(c)} |-> files[q]]
    /\ netResult' = IF netResult.c = c THEN NoNetResult ELSE netResult
    /\ UNCHANGED <<hostNets, handleVars>>

(* --------------------------- specifications --------------------------- *)

HostNetChoices ==
    { Cidr(Dotted(10, 0, 0, 0), 24),
      Cidr(Dotted(10, 0, 1, 128), 25),
      Cidr(Dotted(10, 0, 2, 0), 23),
      Cidr(Dotted(10, 0, 0, 0), 16),
      Cidr(Dotted(100, 64, 0, 0), 10) }

InitHandle ==
    /\ ips = <<>>
    /\ cstate = "STOPPED"
    /\ environ = None
    /\ calls = <<>>
    /\ pc = "idle"
    /\ local = NoLocal
    /\ proc = NoProc
    /\ result = NoResult

InitNet ==
    /\ files = <<>>
    /\ netResult = NoNetResult

Init ==
    /\ InitHandle
    /\ InitNet
    /\ hostNets = {}

Next ==
    \/ ip
    \/ create
    \/ start
    \/ stop
    \/ destroy
    \/ runtime_ips_change
    \/ runtime_state_change
    \/ setenv

Spec == Init /\ [][Next]_vars

NextRun ==
    \/ run_spawn
    \/ process_exits
    \/ run_branch
    \/ runtime_ips_change

SpecRun == Init /\ [][NextRun]_vars

NextRoute ==
    \/ ssr_log
    \/ ssr_cmd
    \/ ssr_ret
    \/ runtime_ips_change

SpecRoute == Init /\ [][NextRoute]_vars

InitNetSpec ==
    /\ InitHandle
    /\ InitNet
    /\ hostNets \in SUBSET HostNetChoices

NextNet ==
    \/ \E c \in Containers : write_lxc_net_config(c)
    \/ \E c \in Containers : rootfs_removed(c)

SpecNet == InitNetSpec /\ [][NextNet]_vars

(* ------------------------------ claims -------------------------------- *)

\* a finished call of operation op, its calls still in the trace
Finished(op) == pc = "idle" /\ result.op = op

Contains(seq, x) == \E i \in DOMAIN seq : seq[i] = x

CallsOf(op) == {i \in DOMAIN calls : calls[i].op = op}

\* C1: a run whose process ends with a non-zero exit status fails with
\* ContainerRunException, and with nothing else, carrying the command, the
\* container, the container's IP and the exit code.
C1_NonZeroExitRaisesContainerRunException ==
    (Finished("run") /\ ~proc.alive /\ proc.exitStatus # 0) =>
        /\ result.kind = "raise"
        /\ result.exc = "ContainerRunException"
        /\ result.msg[2] = local.cmd
        /\ result.msg[4] = container
        /\ result.msg[6] \in Addrs
        /\ result.code = <<proc.exitStatus>>

\* C2: run branches on the exit status only after the process has ended, and
\* a process that ends with status 0 makes run return its standard output.
C2_RunWaitsThenReturnsStdout ==
    Finished("run") =>
        /\ local.seen = "exited"
        /\ (~proc.alive /\ proc.exitStatus = 0) =>
              result = Return("run", proc.attrs.stdout)

\* C3: ip() returns the first reported address of a non-empty list; on an
\* empty list, or when the query raises a process-execution error, it fails
\* with NoContainerIPException and with nothing else.
C3_IpFirstAddressOrNoContainerIP ==
    Finished("ip") =>
        /\ Len(calls) = 1
        /\ calls[1].op = "get_ips"
        /\ IF ~calls[1].failed /\ Len(calls[1].ips) > 0
           THEN result = Return("ip", calls[1].ips[1])
           ELSE result.kind = "raise" /\ result.exc = "NoContainerIPException"

\* ip() was called while the runtime reported no address
C3_Witness ==
    /\ Finished("ip")
    /\ ~calls[1].failed
    /\ calls[1].ips = <<>>
    /\ result.exc = "NoContainerIPException"

\* C4: destroy() on a RUNNING container stops exactly once and destroys
\* afterwards; on any other state it makes no stop call and destroys once.
C4_DestroyStopsOnlyWhenRunning ==
    Finished("destroy") =>
        /\ Cardinality(CallsOf("destroy")) = 1
        /\ \A i \in DOMAIN calls : calls[i].op \in {"stop", "destroy"}
        /\ IF local.seen = "RUNNING"
           THEN /\ Cardinality(CallsOf("stop")) = 1
                /\ \A i \in CallsOf("stop"), j \in CallsOf("destroy") : i < j
           ELSE CallsOf("stop") = {}

\* destroy() was called on a container that was already stopped
C4_Witness ==
    /\ Finished("destroy")
    /\ local.seen = "STOPPED"
    /\ calls = <<[op |-> "destroy"]>>

\* C5: set_static_route runs 'ip route add <net> via <ip> dev lxcbr0'; a
\* non-zero status fails the call with an error naming the network and the
\* command's output; a value is returned only on status 0.
C5_RouteCommandStatusDecides ==
    Finished("set_static_route") =>
        /\ Cardinality(CallsOf("get_command_output")) <= 1
        /\ \A i \in CallsOf("get_command_output") :
              /\ i > 1
              /\ calls[i - 1].op = "get_ips"
              /\ ~calls[i - 1].failed
              /\ calls[i].cmd = <<"ip", "route", "add", local.net, "via",
                                   calls[i - 1].ips[1], "dev", "lxcbr0">>
              /\ calls[i].out.status # 0 =>
                    /\ result.kind = "raise"
                    /\ result.exc = "Exception"
                    /\ Contains(result.msg, local.net)
                    /\ Contains(result.msg, calls[i].out.output)
        /\ result.kind = "return" =>
              /\ \E i \in CallsOf("get_command_output") : calls[i].out.status = 0
              /\ result.val[1] \in Addrs

\* the route command failed with some output
C5_Witness ==
    /\ Finished("set_static_route")
    /\ \E i \in CallsOf("get_command_output") :
          /\ calls[i].out.status # 0
          /\ calls[i].out.output # ""
    /\ result.exc = "Exception"

\* what every create call does, whatever the environment
CreateDelegates ==
    /\ Len(calls) = 1
    /\ calls[1].op = "create"
    /\ calls[1].template = "ubuntu-cloud"
    /\ calls[1].args[2] = "-u"
    /\ calls[1].args[3] = calls[1].userdata
    /\ result = Return("create", calls[1].ret)

\* C9 as stated: create calls the runtime's create once with the
\* ubuntu-cloud template and returns its result; -F is passed if and only if
\* USE_LXC_IMAGE_CACHE is absent, whatever its value when present.
C9_FlushIffVariableAbsent ==
    Finished("create") =>
        /\ CreateDelegates
        /\ Contains(calls[1].args, "-F") <=> calls[1].env = None

\* C9 as amended: -F is passed if and only if USE_LXC_IMAGE_CACHE is absent
\* or set to the empty string; only a non-empty value suppresses the flush.
C9_FlushIffVariableAbsentOrEmpty ==
    Finished("create") =>
        /\ CreateDelegates
        /\ Contains(calls[1].args, "-F") <=> calls[1].env \in {None, ""}

\* create was called with the variable present and empty, and flushed
C9_Witness ==
    /\ Finished("create")
    /\ calls[1].env = ""
    /\ calls[1].args[1] = "-F"

\* C10: a successful set_static_route returns the address it used as the
\* gateway of the route command, also when the reported addresses change
\* between its ip() queries; a query that finds no address fails the call
\* with NoContainerIPException.
C10_ReturnedAddressIsTheGateway ==
    Finished("set_static_route") =>
        /\ result.kind = "return" =>
              \A i \in CallsOf("get_command_output") :
                  result.val[1] = calls[i].cmd[6]
        /\ (\E i \in CallsOf("get_ips") : calls[i].failed \/ calls[i].ips = <<>>)
              => (result.kind = "raise" /\ result.exc = "NoContainerIPException")

\* the config files that exist, by path
Configs == DOMAIN files

\* C6: the gateway written for a subnet N is N[1]; the dynamic range starts
\* right after the gateway and ends at N's last usable host address, lies
\* inside N and leaves the gateway out (10.0.1.0/24: 10.0.1.2 .. 10.0.1.254).
C6_GatewayExcludedRangeMaximal ==
    \A p \in Configs :
        LET f == files[p]
            first == f.network[1]
            size == 2 ^ (32 - f.network[2])
            low == f.dhcp_range[1]
            high == f.dhcp_range[2]
        IN /\ f.addr = first + 1
           /\ low = f.addr + 1
           /\ high = first + size - 2
           /\ first < low /\ low <= high /\ high < first + size
           /\ ~(low <= f.addr /\ f.addr <= high)
           /\ f.network = Cidr(Dotted(10, 0, 1, 0), 24) =>
                 /\ f.addr = Dotted(10, 0, 1, 1)
                 /\ f.dhcp_range = <<Dotted(10, 0, 1, 2), Dotted(10, 0, 1, 254)>>

\* a config file was written for 10.0.1.0/24
C6_Witness ==
    \E p \in Configs :
        /\ files[p].network = Cidr(Dotted(10, 0, 1, 0), 24)
        /\ files[p].dhcp_range = <<Dotted(10, 0, 1, 2), Dotted(10, 0, 1, 254)>>

\* two CIDR blocks share an address
CidrOverlap(a, b) ==
    /\ a[1] <= b[1] + (2 ^ (32 - b[2]) - 1)
    /\ b[1] <= a[1] + (2 ^ (32 - a[2]) - 1)

\* C7: the subnet handed to write_lxc_net_config is the first candidate, in
\* enumeration order, that overlaps no used subnet (used {10.0.0.0/24} gives
\* 10.0.1.0/24); when every candidate overlaps a used subnet the allocator
\* signals exhaustion and returns none.
C7_FirstNonOverlappingCandidateOrExhaustion ==
    /\ netResult.kind = "return" =>
          \E k \in 0..(NumCandidates - 1) :
              /\ netResult.network = Candidate(k)
              /\ \A u \in netResult.used : ~CidrOverlap(Candidate(k), u)
              /\ \A j \in 0..(k - 1) :
                    \E u \in netResult.used : CidrOverlap(Candidate(j), u)
    /\ (netResult.kind = "return"
          /\ netResult.used = {Cidr(Dotted(10, 0, 0, 0), 24)})
          => netResult.network = Cidr(Dotted(10, 0, 1, 0), 24)
    /\ netResult.kind = "exhausted" <=>
          /\ netResult.c # 0
          /\ \A k \in 0..(NumCandidates - 1) :
                \E u \in netResult.used : CidrOverlap(Candidate(k), u)

\* only 10.0.0.0/24 was in use and the call returned 10.0.1.0/24
C7_Witness ==
    /\ netResult.kind = "return"
    /\ netResult.used = {Cidr(Dotted(10, 0, 0, 0), 24)}
    /\ netResult.network = Cidr(Dotted(10, 0, 1, 0), 24)

====
